---- MODULE Spec2Model ----
\* Verification model of the fox HTTP engine (src/engine.go): route registration,
\* request dispatch in Engine.handleHTTPRequest (match, trailing-slash redirect,
\* fixed-path redirect, 405, 404) and the context pool used by Engine.ServeHTTP.
\*
\* Strings that the code inspects or rewrites (URL paths, the X-Forwarded-Prefix
\* header, the Location header) are sequences of one-character strings, so that
\* cleaning, slash toggling and case folding are computed and not assumed.
EXTENDS Naturals, Sequences, FiniteSets, TLC

\* ---------------------------------------------------------------- bounds

\* Largest number of routes registered on the engine.
MaxRoutes == 2
\* Largest number of routes registered in the concurrent specification.
PoolMaxRoutes == 1
\* Number of ServeHTTP calls that may be in flight together (SpecPool).
MaxInFlight == 2
\* Largest number of routes registered while registration is examined.
RegMaxRoutes == 2
\* Largest numbers of parameters and of results of a handler given to call().
MaxIn == 3
MaxOut == 3
\* Longest handler chain run.
MaxChain == 3
\* Largest number of global middleware handlers attached through Use.
MaxUse == 2
\* Largest number of routes registered while lookups are examined.
MaxLookupRoutes == 2

\* ------------------------------------------------------ program constants

StatusOK == 200
StatusMovedPermanently == 301
StatusPermanentRedirect == 308
StatusNotFound == 404
StatusMethodNotAllowed == 405
\* A status a handler sets by itself (http.StatusTeapot in TestRouterNotAllowed).
StatusTeapot == 418
StatusCreated == 201
StatusBadRequest == 400

MethodGet == "GET"
MethodHead == "HEAD"
MethodPost == "POST"
MethodConnect == "CONNECT"
MethodOptions == "OPTIONS"

default404Body == "404 page not found"
default405Body == "405 method not allowed"

\* The plain-text content type serveError gives its default bodies.
MIMEPlain == "text/plain"

\* ------------------------------------------------------------ input sets

Methods == {MethodGet, MethodHead, MethodPost, MethodConnect}

\* The methods routes are registered under; POST is requested only.
RouteMethods == {MethodGet, MethodHead, MethodConnect}

\* Patterns handed to addRoute (already joined and cleaned by the router group).
RoutePaths == { <<"/", "a">>, <<"/", "A", "/">> }

\* URL paths of incoming requests.
RequestPaths ==
    { <<"/">>, <<"/", "a">>, <<"/", "a", "/">>, <<"/", "A">>, <<"/", "A", "/">>,
      <<"/", "/", "a">>, <<"/", ".", ".", "/", "a">> }

\* Values of the X-Forwarded-Prefix request header; <<>> is "header absent".
Prefixes == { <<>>, <<"/", "p", "/">> }

\* What the handlers of a chain do to the response when the chain runs.
Effects == {"none", "status", "write", "panic"}

\* -------------------------------------------------------- string helpers

Last(s) == s[Len(s)]

Range(s) == { s[i] : i \in DOMAIN s }

HasSuffixSlash(s) == Len(s) > 0 /\ Last(s) = "/"

ToLower(c) == IF c = "A" THEN "a" ELSE IF c = "P" THEN "p" ELSE c

Fold(s) == [i \in DOMAIN s |-> ToLower(s[i])]

\* strings.Split(s, "/")
RECURSIVE Split(_)
Split(s) ==
    IF s = <<>> THEN << <<>> >>
    ELSE LET rest == Split(Tail(s))
         IN  IF Head(s) = "/" THEN << <<>> >> \o rest
             ELSE << <<Head(s)>> \o Head(rest) >> \o Tail(rest)

\* strings.Join(segs, "/")
RECURSIVE Join(_)
Join(segs) ==
    IF segs = <<>> THEN <<>>
    ELSE IF Len(segs) = 1 THEN segs[1]
    ELSE segs[1] \o <<"/">> \o Join(Tail(segs))

DotDot == <<".", ".">>

\* The element stack of a lexical path clean: "" and "." are dropped, ".." pops
\* the previous element (at the root it is dropped; in a relative path it is kept).
RECURSIVE CleanSegs(_, _, _)
CleanSegs(segs, rooted, out) ==
    IF segs = <<>> THEN out
    ELSE LET e == Head(segs)
             next ==
                IF e = <<>> \/ e = <<".">> THEN out
                ELSE IF e = DotDot
                     THEN IF out # <<>> /\ Last(out) # DotDot
                          THEN SubSeq(out, 1, Len(out) - 1)
                          ELSE IF rooted THEN out ELSE Append(out, e)
                     ELSE Append(out, e)
         IN  CleanSegs(Tail(segs), rooted, next)

\* Go's path.Clean.
PathClean(s) ==
    IF s = <<>> THEN <<".">>
    ELSE LET rooted == s[1] = "/"
             j == Join(CleanSegs(Split(s), rooted, <<>>))
         IN  IF rooted THEN <<"/">> \o j
             ELSE IF j = <<>> THEN <<".">> ELSE j

\* The router's CleanPath: always rooted, keeps a trailing slash.
CleanPath(p) ==
    IF p = <<>> THEN <<"/">>
    ELSE LET segs == Split(p)
             out == CleanSegs(segs, TRUE, <<>>)
             trailing == (Len(p) > 1 /\ Last(p) = "/") \/ Last(segs) = <<".">>
         IN  IF out = <<>> THEN <<"/">>
             ELSE <<"/">> \o Join(out) \o (IF trailing THEN <<"/">> ELSE <<>>)

\* The path with one trailing slash removed, or added when it has none.
ToggleSlash(p) ==
    IF Len(p) > 1 /\ Last(p) = "/" THEN SubSeq(p, 1, Len(p) - 1) ELSE p \o <<"/">>

\* path.Split's directory part: everything up to and including the last slash.
RECURSIVE DirOf(_)
DirOf(p) ==
    IF p = <<>> THEN <<>>
    ELSE IF Last(p) = "/" THEN p ELSE DirOf(SubSeq(p, 1, Len(p) - 1))

\* ----------------------------------------------------------------- state

VARIABLES
    RedirectTrailingSlash,   \* Engine.RedirectTrailingSlash
    RedirectFixedPath,       \* Engine.RedirectFixedPath
    HandleMethodNotAllowed,  \* Engine.HandleMethodNotAllowed
    HandleOPTIONS,           \* Engine.HandleOPTIONS
    Handlers,                \* Engine.RouterGroup.Handlers: the global middleware
    PanicHandler,            \* Engine.PanicHandler # nil
    trees,                   \* Engine.trees: sequence of [method, root]
    maxParams,               \* Engine.maxParams
    maxSections,             \* Engine.maxSections
    noRoute,                 \* Engine.noRoute
    allNoRoute,              \* Engine.allNoRoute
    noMethod,                \* Engine.noMethod
    allNoMethod,             \* Engine.allNoMethod
    pool,                    \* Engine.pool: the context instances at rest in it
    calls,                   \* the ServeHTTP calls: position, context, request, response
    contexts,                \* the fields each *Context instance holds between uses
    raised,                  \* the panic the latest registration call raised, if any
    configured,              \* what Use, NotFound and NoMethod were called with so far
    cache,                   \* Engine.cache
    loaded,                  \* the latest call on the cache and what it returned
    invocation,              \* a handler, and what invoking it through call() gave
    run                      \* a handler chain, and the run of Context.Next over it

vars == << RedirectTrailingSlash, RedirectFixedPath, HandleMethodNotAllowed,
           HandleOPTIONS, Handlers,
           PanicHandler, trees, maxParams, maxSections, noRoute, allNoRoute, noMethod, allNoMethod,
           pool, calls, contexts, raised, configured, cache, loaded, invocation, run >>

config == << RedirectTrailingSlash, RedirectFixedPath, HandleMethodNotAllowed,
             HandleOPTIONS, Handlers, configured,
             PanicHandler, trees, maxParams, maxSections, noRoute, allNoRoute, noMethod, allNoMethod >>

\* The state outside the engine's routing and serving: the cache and the
\* handler invocations examined on their own.
lab == << cache, loaded, invocation, run >>

\* A handler is a pair <<name, path>>; a nil chain is the empty sequence.
nil == <<>>
RouteHandler(method, path) == <<method, path>>
NotFoundHandler == <<"NotFound", <<>> >>
NoMethodHandler == <<"NoMethod", <<>> >>

\* Identities of context instances: as many as calls can hold at once.
Contexts == 1 .. MaxInFlight
NoContext == 0

\* http.ResponseWriter after Context.reset: nothing written, status 200.
NewWriter ==
    [ status |-> StatusOK, written |-> FALSE, body |-> "", location |-> <<>>,
      allow |-> <<>>, contentType |-> "" ]

NoRequest == [ method |-> "", path |-> <<>>, prefix |-> <<>> ]

\* What one run of handleHTTPRequest leaves behind.
NoResult ==
    [ w |-> NewWriter, ran |-> <<>>, handlers |-> nil, fullPath |-> <<>>,
      params |-> <<>>, code |-> 0, panicked |-> FALSE, recovered |-> 0, rcv |-> "" ]

IdleCall ==
    [ pc |-> "idle", ctx |-> NoContext, req |-> NoRequest, eff |-> "none",
      res |-> NoResult, puts |-> 0 ]

\* The fields of a *Context that outlive a request unless they are reset: the
\* chain bound to it, the full path of the route it matched and the parameters.
ZeroContext == [ handlers |-> nil, fullPath |-> <<>>, params |-> <<>> ]

\* Context.reset: the context is as new, with the writer of this request.
reset(c) == ZeroContext

\* The context as handleHTTPRequest finds it.
Begin(c) ==
    [NoResult EXCEPT !.handlers = c.handlers, !.fullPath = c.fullPath,
                     !.params = c.params]

\* ------------------------------------------------------ the method trees

\* methodTrees.get: the root of the first tree of the method, or none.
TreeIndex(method) ==
    IF \E i \in DOMAIN trees : trees[i].method = method
    THEN CHOOSE i \in DOMAIN trees :
            /\ trees[i].method = method
            /\ \A j \in DOMAIN trees : trees[j].method = method => i <= j
    ELSE 0

NumRoutes ==
    LET RECURSIVE Sum(_)
        Sum(i) == IF i = 0 THEN 0 ELSE Cardinality(DOMAIN trees[i].root) + Sum(i - 1)
    IN  Sum(Len(trees))

\* A pattern segment that is a named parameter (":name").
IsParam(seg) == Len(seg) > 1 /\ Head(seg) = ":"

HasParams(pattern) == \E k \in DOMAIN pattern : pattern[k] = ":"

\* The pattern matches the concrete path: as many segments, a static segment
\* equal to the path's, a named parameter against any non-empty segment.
Matches(pattern, path) ==
    IF ~HasParams(pattern) THEN pattern = path
    ELSE LET ps == Split(pattern)
             xs == Split(path)
         IN  /\ Len(ps) = Len(xs)
             /\ \A k \in DOMAIN ps :
                   IF IsParam(ps[k]) THEN xs[k] # <<>> ELSE ps[k] = xs[k]

\* The parameters a matching path gives the pattern: one <<name, value>> per
\* named parameter, in the order of the pattern.
ParamsOf(pattern, path) ==
    IF ~HasParams(pattern) THEN <<>>
    ELSE LET ps == Split(pattern)
             xs == Split(path)
             at == SelectSeq([k \in DOMAIN ps |-> k], LAMBDA k : IsParam(ps[k]))
         IN  [j \in DOMAIN at |-> << Tail(ps[at[j]]), xs[at[j]] >>]

\* node.getValue: the chain and full path of the route whose pattern matches the
\* path, with the parameters, or the trailing-slash recommendation when none
\* matches. Registration keeps the patterns of a tree free of overlap.
getValue(root, path) ==
    LET hits == IF path \in DOMAIN root THEN {path}
                ELSE { p \in DOMAIN root : HasParams(p) /\ Matches(p, path) }
    IN  IF hits # {}
        THEN LET p == CHOOSE q \in hits : TRUE
             IN  [ handlers |-> root[p], fullPath |-> p, params |-> ParamsOf(p, path),
                   tsr |-> FALSE ]
        ELSE [ handlers |-> nil, fullPath |-> <<>>, params |-> <<>>,
               tsr |-> /\ path # <<"/">>
                       /\ \/ ToggleSlash(path) \in DOMAIN root
                          \/ \E p \in DOMAIN root :
                                HasParams(p) /\ Matches(p, ToggleSlash(path)) ]

\* The order in which the case-insensitive walk tries its branches: at the
\* first position where two stored paths differ the lower-case one is tried
\* first, and a stored path is reached before its extensions.
RECURSIVE TriedBefore(_, _)
TriedBefore(p, q) ==
    IF p = <<>> THEN TRUE
    ELSE IF q = <<>> THEN FALSE
    ELSE IF Head(p) = Head(q) THEN TriedBefore(Tail(p), Tail(q))
    ELSE Head(p) = ToLower(Head(p))

\* node.findCaseInsensitivePath: the stored path equal to `path` up to letter
\* case and, with fixTrailingSlash, up to one trailing slash.
findCaseInsensitivePath(root, path, fixTrailingSlash) ==
    LET cands == { p \in DOMAIN root :
                     \/ Fold(p) = Fold(path)
                     \/ /\ fixTrailingSlash
                        /\ path # <<"/">>
                        /\ Fold(p) = Fold(ToggleSlash(path)) }
    IN  IF cands = {} THEN [ ok |-> FALSE, fixedPath |-> <<>> ]
        ELSE [ ok |-> TRUE,
               fixedPath |-> CHOOSE p \in cands : \A q \in cands : TriedBefore(p, q) ]

\* ---------------------------------------------------- the response writer

\* responseWriter.WriteHeader: the status changes until the header is sent.
WriteHeader(w, code) == IF w.written THEN w ELSE [w EXCEPT !.status = code]

\* responseWriter.WriteHeaderNow
WriteHeaderNow(w) == [w EXCEPT !.written = TRUE]

\* responseWriter.Write: sends the header, then the body.
Write(w, data) == [w EXCEPT !.written = TRUE, !.body = data]

\* ------------------------------------------------------ running a chain

\* The value the handlers panic with.
PanicValue == "oops!"

\* The chain bound to the context panics when some handler of it does.
Panics(res, eff) == eff = "panic" /\ res.handlers # nil

\* Context.Next without a panic: the handlers of the bound chain run in order;
\* together they leave the response alone, set a status, or write a body.
Next_(res, eff) ==
    IF res.handlers = nil \/ eff = "none" THEN res
    ELSE IF eff = "status" THEN [res EXCEPT !.w = WriteHeader(@, StatusTeapot)]
    ELSE [res EXCEPT !.w = Write(@, "handler")]

\* Defective variant of recv: the panic is recovered and PanicHandler left out.
recvSilent(res) == [res EXCEPT !.panicked = TRUE]

\* Engine.recv, deferred by handleHTTPRequest only when PanicHandler is set:
\* the panic is recovered and handed to PanicHandler; otherwise it propagates.
recv(res) ==
    [res EXCEPT !.panicked = TRUE, !.recovered = IF PanicHandler THEN @ + 1 ELSE @,
                !.rcv = IF PanicHandler THEN PanicValue ELSE @]

\* ------------------------------------------------------------- redirects

\* http.Redirect's Location for a URL without scheme and host: a relative URL
\* is resolved against the directory of the request path, then the URL is
\* cleaned and its trailing slash kept.
RedirectLocation(url, oldpath) ==
    LET abs == IF url = <<>> \/ url[1] # "/" THEN DirOf(oldpath) \o url ELSE url
        cleaned == PathClean(abs)
    IN  IF HasSuffixSlash(abs) /\ ~HasSuffixSlash(cleaned)
        THEN cleaned \o <<"/">> ELSE cleaned

\* Defective variant of redirectCode: HEAD is treated like GET.
redirectCodeHead(method) ==
    IF method \in {MethodGet, MethodHead}
    THEN StatusMovedPermanently ELSE StatusPermanentRedirect

\* The status redirectRequest chooses.
redirectCode(method) ==
    IF method # MethodGet THEN StatusPermanentRedirect ELSE StatusMovedPermanently

\* redirectRequest: req.URL (already rewritten to urlPath) is sent as Location.
redirectRequest(res, method, urlPath) ==
    LET w1 == [res.w EXCEPT !.location = RedirectLocation(urlPath, urlPath)]
        w2 == WriteHeader(w1, redirectCode(method))
    IN  [res EXCEPT !.w = WriteHeaderNow([w2 EXCEPT !.body = "redirect"]),
                    !.ran = Append(@, "redirect")]

\* Defective variant of trailingSlashURL: the slash is always appended, never removed.
trailingSlashURLAppend(path, prefixHeader) ==
    LET prefix == PathClean(prefixHeader)
        p == IF prefix # <<".">> THEN prefix \o <<"/">> \o path ELSE path
    IN  p \o <<"/">>

\* The path redirectTrailingSlash writes into req.URL.Path.
trailingSlashURL(path, prefixHeader) ==
    LET prefix == PathClean(prefixHeader)
        p == IF prefix # <<".">> THEN prefix \o <<"/">> \o path ELSE path
    IN  IF Len(p) > 1 /\ Last(p) = "/" THEN SubSeq(p, 1, Len(p) - 1)
        ELSE p \o <<"/">>

redirectTrailingSlash(res, req) ==
    redirectRequest(res, req.method, trailingSlashURL(req.path, req.prefix))

\* Defective variant of redirectFixedPath: the request path is looked up without CleanPath.
redirectFixedPathRaw(res, req, root, trailingSlash) ==
    LET found == findCaseInsensitivePath(root, req.path, trailingSlash)
    IN  IF found.ok
        THEN [ ok |-> TRUE, res |-> redirectRequest(res, req.method, found.fixedPath) ]
        ELSE [ ok |-> FALSE, res |-> res ]

\* redirectFixedPath: [ok, res]; ok is its boolean result.
redirectFixedPath(res, req, root, trailingSlash) ==
    LET found == findCaseInsensitivePath(root, CleanPath(req.path), trailingSlash)
    IN  IF found.ok
        THEN [ ok |-> TRUE, res |-> redirectRequest(res, req.method, found.fixedPath) ]
        ELSE [ ok |-> FALSE, res |-> res ]

\* ---------------------------------------------------------- 404 and 405

\* Defective variant of serveError: the default body follows whatever the
\* chain did to the response.
serveErrorAlways(res, code, defaultMessage, eff) ==
    LET r1 == [res EXCEPT !.w.status = code, !.code = code]
    IN  IF Panics(r1, eff) THEN recv(r1)
        ELSE LET r2 == Next_(r1, eff)
             IN  [r2 EXCEPT !.w = Write([@ EXCEPT !.contentType = MIMEPlain],
                                        defaultMessage)]

\* serveError: the status is preset and the chain run; a chain that wrote has
\* the last word, an untouched status gets the default body as plain text, a
\* changed status is sent without one.
serveError(res, code, defaultMessage, eff) ==
    LET r1 == [res EXCEPT !.w.status = code, !.code = code]
    IN  IF Panics(r1, eff) THEN recv(r1)
        ELSE LET r2 == Next_(r1, eff)
             IN  IF r2.w.written THEN r2
                 ELSE IF r2.w.status = code
                      THEN [r2 EXCEPT !.w = Write([@ EXCEPT !.contentType = MIMEPlain],
                                                  defaultMessage)]
                      ELSE [r2 EXCEPT !.w = WriteHeaderNow(@)]

\* The 405 probe: some tree of another method holds a route for the path.
otherMethodMatches(req) ==
    \E i \in DOMAIN trees :
        /\ trees[i].method # req.method
        /\ getValue(trees[i].root, req.path).handlers # nil

\* Defective variant of methodNotAllowed: the probe runs whatever the flag says.
methodNotAllowedAlways(req) == otherMethodMatches(req)

methodNotAllowed(req) == HandleMethodNotAllowed /\ otherMethodMatches(req)

\* The tail of handleHTTPRequest, reached when no route and no redirect applied.
handleError(res, req, eff) ==
    IF methodNotAllowed(req)
    THEN serveError([res EXCEPT !.handlers = allNoMethod, !.ran = Append(@, "nomethod")],
                    StatusMethodNotAllowed, default405Body, eff)
    ELSE serveError([res EXCEPT !.handlers = allNoRoute, !.ran = Append(@, "notfound")],
                    StatusNotFound, default404Body, eff)

\* ------------------------------------------------------ handleHTTPRequest

\* The route's chain is bound to the context, run, and the response finalized.
serveRoute(res, value, eff) ==
    LET r1 == [res EXCEPT !.handlers = value.handlers, !.fullPath = value.fullPath,
                          !.ran = Append(@, "route")]
    IN  IF Panics(r1, eff) THEN recv(r1)
        ELSE [Next_(r1, eff) EXCEPT !.w = WriteHeaderNow(@)]

\* Defective variant of setParams: the parameters of the lookup are dropped.
setParamsNever(res, value) == res

\* The parameters the lookup extracted are bound to the context.
setParams(res, value) ==
    IF value.params # <<>> THEN [res EXCEPT !.params = value.params] ELSE res

\* Defective variant of matched: the wrong field of the lookup result is tested.
matchedTsr(value) == value.tsr

matched(value) == value.handlers # nil

mayRedirect(req) == req.method # MethodConnect /\ req.path # <<"/">>

\* Defective variant of trailingSlashBranch: the return after the redirect is missing.
trailingSlashBranchNoReturn(res, req) ==
    [ returned |-> FALSE, res |-> redirectTrailingSlash(res, req) ]

\* The branch taken for a trailing-slash recommendation: redirect, then return.
trailingSlashBranch(res, req) ==
    [ returned |-> TRUE, res |-> redirectTrailingSlash(res, req) ]

\* The body of the loop over engine.trees for the tree of the request method:
\* [returned, res]; returned is FALSE when the loop is left with break.
lookupTree(ctx, req, root, eff) ==
    LET value == getValue(root, req.path)
        res == setParams(ctx, value)
    IN  IF matched(value)
        THEN [ returned |-> TRUE, res |-> serveRoute(res, value, eff) ]
        ELSE IF mayRedirect(req)
             THEN IF value.tsr /\ RedirectTrailingSlash
                  THEN trailingSlashBranch(res, req)
                  ELSE IF RedirectFixedPath
                       THEN LET fixed == redirectFixedPath(res, req, root, RedirectFixedPath)
                            IN  [ returned |-> fixed.ok, res |-> fixed.res ]
                       ELSE [ returned |-> FALSE, res |-> res ]
             ELSE [ returned |-> FALSE, res |-> res ]

\* Defective variant of handleHTTPRequest: the 405 probe comes before the
\* redirects of the request method's tree.
handleHTTPRequestProbeFirst(ctx, req, eff) ==
    LET i == TreeIndex(req.method)
        hit == i # 0 /\ matched(getValue(trees[i].root, req.path))
        looked == IF i = 0 THEN [ returned |-> FALSE, res |-> ctx ]
                  ELSE lookupTree(ctx, req, trees[i].root, eff)
    IN  IF ~hit /\ methodNotAllowed(req) THEN handleError(ctx, req, eff)
        ELSE IF looked.returned THEN looked.res
        ELSE handleError(looked.res, req, eff)

handleHTTPRequest(ctx, req, eff) ==
    LET i == TreeIndex(req.method)
        looked == IF i = 0 THEN [ returned |-> FALSE, res |-> ctx ]
                  ELSE lookupTree(ctx, req, trees[i].root, eff)
    IN  IF looked.returned THEN looked.res
        ELSE handleError(looked.res, req, eff)

\* ------------------------------------------------------------- call()

\* A value a handler returns, or the outcome of call(): its dynamic type, the
\* status code or number it carries, its text, and the error it wraps.
Value(kind, code, text, err) == [ kind |-> kind, code |-> code, text |-> text, err |-> err ]

Nil == Value("nil", 0, "", "")

\* The values the handlers return: nil; an error without a status, a
\* structured error and an error exposing a status code; a string, a struct
\* and a number meant as a status code; a redirect and a YAML directive.
ReturnValues ==
    { Nil,
      Value("error", 0, "failed", ""),
      Value("httpError", StatusNotFound, "NOT_FOUND", ""),
      Value("statusError", StatusTeapot, "teapot", ""),
      Value("string", 0, "custom method", ""),
      Value("struct", 0, "product", ""),
      Value("int", StatusCreated, "", ""),
      Value("redirect", StatusMovedPermanently, "/login", ""),
      Value("yaml", 0, "data", "") }

\* The dynamic type implements the error interface.
IsError(v) == v.kind \in {"error", "httpError", "statusError"}

\* A value handed to call() that is no function.
NotAFunc ==
    [ isFunc |-> FALSE, numIn |-> 0, numOut |-> 0, binds |-> <<>>, returns |-> <<>> ]

\* A function handed to call(): binds[i] tells whether bind succeeds for its
\* parameter i + 1 (the context is the first), returns are the values it
\* returns.
HandlerFunc(binds, returns) ==
    [ isFunc |-> TRUE, numIn |-> IF binds = <<>> THEN 1 ELSE Len(binds) + 1,
      numOut |-> Len(returns), binds |-> binds, returns |-> returns ]

\* A function without parameters.
NoArgFunc(returns) ==
    [ isFunc |-> TRUE, numIn |-> 0, numOut |-> Len(returns), binds |-> <<>>,
      returns |-> returns ]

\* The error bind returns for the parameter it cannot fill.
bindError(i) ==
    IF i = 1 THEN "bind: parameter 1"
    ELSE IF i = 2 THEN "bind: parameter 2" ELSE "bind: a later parameter"

\* What call() gives back: a panic, or an outcome; with whether the handler
\* function was invoked and how many parameters bind was tried on.
Called(panicked, message, invoked, bound, outcome) ==
    [ panicked |-> panicked, message |-> message, invoked |-> invoked,
      bound |-> bound, outcome |-> outcome ]

\* Defective variant of bindParams: binding goes on after a failure.
bindParamsAll(handler) ==
    LET failed == { i \in DOMAIN handler.binds : ~handler.binds[i] }
    IN  IF failed = {} THEN [ err |-> "", bound |-> Len(handler.binds) ]
        ELSE [ err |-> bindError(CHOOSE i \in failed : \A j \in failed : i <= j),
               bound |-> Len(handler.binds) ]

\* The loop binding the parameters after the context: it stops at the first
\* parameter bind fails on. [err, bound]: the error ("" for none) and the
\* number of parameters bind was called for.
bindParams(handler) ==
    LET failed == { i \in DOMAIN handler.binds : ~handler.binds[i] }
    IN  IF failed = {} THEN [ err |-> "", bound |-> Len(handler.binds) ]
        ELSE LET first == CHOOSE i \in failed : \A j \in failed : i <= j
             IN  [ err |-> bindError(first), bound |-> first ]

\* Defective variant of results: of two results the first is looked at first.
resultsFirstWins(values) ==
    IF Len(values) = 0 THEN Nil
    ELSE IF Len(values) = 1 THEN values[1]
    ELSE IF IsError(values[1]) THEN values[1] ELSE values[2]

\* The switch on numOut: the outcome for the values the handler returned.
results(values) ==
    IF Len(values) = 0 THEN Nil
    ELSE IF Len(values) = 1 THEN values[1]
    ELSE IF IsError(values[2]) THEN values[2] ELSE values[1]

\* call(ctx, handler)
call(handler) ==
    IF ~handler.isFunc
    THEN Called(TRUE, "is not a function", FALSE, 0, Nil)
    ELSE IF handler.numOut > 2
    THEN Called(TRUE, "only support handler func returns max is two values", FALSE, 0, Nil)
    ELSE IF handler.numIn <= 1
    THEN Called(FALSE, "", TRUE, 0, results(handler.returns))
    ELSE LET bound == bindParams(handler)
         IN  IF bound.err # ""
             THEN Called(FALSE, "", FALSE, bound.bound,
                         Value("httpError", StatusBadRequest, "BIND_ERROR", bound.err))
             ELSE Called(FALSE, "", TRUE, bound.bound, results(handler.returns))

\* ------------------------------------------------- running a handler chain

\* Context.index once the chain is aborted.
AbortIndex == 63

\* One handler of a chain: the function call() invokes, whether its body
\* aborts the chain (before or after its call of Next, if any) and whether it
\* calls Next.
ChainHandler(fn, abort, next) == [ fn |-> fn, abort |-> abort, next |-> next ]

\* A context bound to a chain, before Next: nothing rendered, status 200.
NewContext(handlers) ==
    [ index |-> 0, handlers |-> handlers, status |-> StatusOK, renderer |-> "",
      body |-> Nil, trace |-> <<>>, panicked |-> FALSE ]

Abort(c) == [c EXCEPT !.index = AbortIndex]

IsAborted(c) == c.index >= AbortIndex

\* Defective variant of outcomeDropped: the outcome is rendered in any case.
outcomeDroppedNever(c) == FALSE

\* The wrapper returns without rendering when the chain is aborted.
outcomeDropped(c) == IsAborted(c)

\* The response is written by `renderer` with status `code`, the chain aborted.
Rendered(c, i, code, renderer, body) ==
    [Abort(c) EXCEPT !.status = code, !.renderer = renderer, !.body = body,
                     !.trace = Append(@, <<"render", i>>)]

\* Defective variant of render: a directive is serialized like any payload.
renderDefault(c, i, r) ==
    IF r.kind = "httpError" THEN Rendered(c, i, r.code, "json", r)
    ELSE IF r.kind = "statusError" THEN Rendered(c, i, r.code, "json", r)
    ELSE IF r.kind = "error"
         THEN Rendered(c, i, StatusBadRequest, "json", Value("httpError", StatusBadRequest, "", r.text))
    ELSE IF r.kind = "string" THEN Rendered(c, i, StatusOK, "text", r)
    ELSE IF r.kind = "nil" THEN c
    ELSE Rendered(c, i, StatusOK, "json", r)

\* The switch of the handler wrapper on the outcome of call(): how handler i's
\* outcome r becomes the response.
render(c, i, r) ==
    IF r.kind = "httpError" THEN Rendered(c, i, r.code, "json", r)
    ELSE IF r.kind = "statusError" THEN Rendered(c, i, r.code, "json", r)
    ELSE IF r.kind = "error"
         THEN Rendered(c, i, StatusBadRequest, "json", Value("httpError", StatusBadRequest, "", r.text))
    ELSE IF r.kind = "string" THEN Rendered(c, i, StatusOK, "text", r)
    ELSE IF r.kind = "redirect" THEN Rendered(c, i, r.code, "redirect", r)
    ELSE IF r.kind = "yaml" THEN Rendered(c, i, StatusOK, "yaml", r)
    ELSE IF r.kind = "nil" THEN c
    ELSE Rendered(c, i, StatusOK, "json", r)

RECURSIVE chainNext(_)
RECURSIVE runFrom(_)
RECURSIVE handleWrapper(_, _)

\* Context.Next: the cursor moves on and the handlers from there run in order.
chainNext(c) == runFrom([c EXCEPT !.index = @ + 1])

\* The loop of Context.Next.
runFrom(c) ==
    IF c.index > Len(c.handlers) THEN c
    ELSE LET d == handleWrapper(c, c.index)
         IN  IF d.panicked THEN d ELSE runFrom([d EXCEPT !.index = @ + 1])

\* The wrapper around handler i: the function is invoked through call(), its
\* body may abort and call Next; unless the chain is then aborted the outcome
\* is rendered.
handleWrapper(c, i) ==
    LET h == c.handlers[i]
        entered == [c EXCEPT !.trace = Append(@, <<"enter", i>>)]
        called == call(h.fn)
        before == IF h.abort = "before"
                  THEN [Abort(entered) EXCEPT !.trace = Append(@, <<"abort", i>>)]
                  ELSE entered
        inner == IF h.next THEN chainNext(before) ELSE before
        after == IF h.next /\ ~inner.panicked
                 THEN [inner EXCEPT !.trace = Append(@, <<"after", i>>)]
                 ELSE inner
        left == IF h.abort = "after" /\ ~after.panicked
                THEN [Abort(after) EXCEPT !.trace = Append(@, <<"abort", i>>)]
                ELSE after
    IN  IF called.panicked THEN [entered EXCEPT !.panicked = TRUE]
        ELSE IF ~called.invoked
             THEN IF outcomeDropped(entered) THEN entered
                  ELSE render(entered, i, called.outcome)
        ELSE IF left.panicked \/ outcomeDropped(left) THEN left
        ELSE render(left, i, called.outcome)

\* A handler taking the context and returning nothing.
Plain == HandlerFunc(<<>>, <<>>)

\* A handler taking the context and returning a string.
Text == HandlerFunc(<<>>, << Value("string", 0, "custom method", "") >>)

\* The route's terminal handler put behind the handler under examination.
Terminal == ChainHandler(Plain, "no", FALSE)

NoInvocation ==
    [ done |-> FALSE, handler |-> Plain, called |-> Called(FALSE, "", FALSE, 0, Nil),
      response |-> NewContext(<<>>) ]

NoRun == [ done |-> FALSE, response |-> NewContext(<<>>) ]

\* The chains run: every handler aborts or not, calls Next or not, and returns
\* nothing or a string.
ChainHandlers ==
    { ChainHandler(fn, abort, next) :
        fn \in {Plain, Text}, abort \in {"no", "before", "after"}, next \in BOOLEAN }

Chains == UNION { [1 .. n -> ChainHandlers] : n \in 1 .. MaxChain }

\* ------------------------------------------------------------------ Init

\* No registration call has panicked.
NoPanic == [ message |-> "", method |-> "", path |-> <<>>, handlers |-> <<>> ]

NoLoad == [ op |-> "", key |-> "", value |-> "nil", exists |-> FALSE, panicked |-> FALSE ]

\* Nothing stored, nothing invoked.
InitLab ==
    /\ cache = << >>
    /\ loaded = NoLoad
    /\ invocation = NoInvocation
    /\ run = NoRun

\* No Use, NotFound or NoMethod call was made.
NoneConfigured == [ use |-> <<>>, notFound |-> <<>>, noMethod |-> <<>> ]

\* The engine returned by New(): every option enabled, no PanicHandler, no
\* middleware, no routes, no custom chains, an empty pool; no call has started.
Init ==
    /\ RedirectTrailingSlash = TRUE
    /\ RedirectFixedPath = TRUE
    /\ HandleMethodNotAllowed = TRUE
    /\ HandleOPTIONS = TRUE
    /\ Handlers = nil
    /\ configured = NoneConfigured
    /\ PanicHandler = FALSE
    /\ trees = <<>>
    /\ maxParams = 0
    /\ maxSections = 0
    /\ noRoute = nil
    /\ allNoRoute = nil
    /\ noMethod = nil
    /\ allNoMethod = nil
    /\ pool = {}
    /\ calls = [r \in 1 .. MaxInFlight |-> IdleCall]
    /\ contexts = [c \in Contexts |-> ZeroContext]
    /\ raised = NoPanic
    /\ InitLab

\* --------------------------------------------------------- configuration

InFlight(r) == calls[r].pc \in {"acquired", "handled"}

\* The engine is configured while no request is being served; the responses
\* of earlier calls are dropped with the configuration they were made under.
Quiescent == \A r \in DOMAIN calls : ~InFlight(r)

Forget == calls' = [r \in DOMAIN calls |-> IdleCall]

SetRedirectTrailingSlash ==
    /\ Quiescent
    /\ RedirectTrailingSlash' = ~RedirectTrailingSlash
    /\ Forget
    /\ UNCHANGED << RedirectFixedPath, HandleMethodNotAllowed, PanicHandler, trees,
                    noRoute, allNoRoute, noMethod, allNoMethod, pool >>
    /\ UNCHANGED << HandleOPTIONS, Handlers, configured, maxParams, maxSections,
                    contexts, raised, lab >>

SetRedirectFixedPath ==
    /\ Quiescent
    /\ RedirectFixedPath' = ~RedirectFixedPath
    /\ Forget
    /\ UNCHANGED << RedirectTrailingSlash, HandleMethodNotAllowed, PanicHandler, trees,
                    noRoute, allNoRoute, noMethod, allNoMethod, pool >>
    /\ UNCHANGED << HandleOPTIONS, Handlers, configured, maxParams, maxSections,
                    contexts, raised, lab >>

SetHandleMethodNotAllowed ==
    /\ Quiescent
    /\ HandleMethodNotAllowed' = ~HandleMethodNotAllowed
    /\ Forget
    /\ UNCHANGED << RedirectTrailingSlash, RedirectFixedPath, PanicHandler, trees,
                    noRoute, allNoRoute, noMethod, allNoMethod, pool >>
    /\ UNCHANGED << HandleOPTIONS, Handlers, configured, maxParams, maxSections,
                    contexts, raised, lab >>

SetPanicHandler ==
    /\ Quiescent
    /\ PanicHandler' = ~PanicHandler
    /\ Forget
    /\ UNCHANGED << RedirectTrailingSlash, RedirectFixedPath, HandleMethodNotAllowed,
                    trees, noRoute, allNoRoute, noMethod, allNoMethod, pool >>
    /\ UNCHANGED << HandleOPTIONS, Handlers, configured, maxParams, maxSections,
                    contexts, raised, lab >>

\* Engine.HandleOPTIONS is a plain field the caller sets.
SetHandleOPTIONS ==
    /\ Quiescent
    /\ HandleOPTIONS' = ~HandleOPTIONS
    /\ Forget
    /\ UNCHANGED << RedirectTrailingSlash, RedirectFixedPath, HandleMethodNotAllowed,
                    PanicHandler, trees, noRoute, allNoRoute, noMethod, allNoMethod, pool >>
    /\ UNCHANGED << Handlers, configured, maxParams, maxSections,
                    contexts, raised, lab >>

\* A chain made of a group's middleware followed by the handlers.
combine(group, handlers) == group \o handlers

\* RouterGroup.combineHandlers: the group's middleware, then the handlers.
combineHandlers(handlers) == combine(Handlers, handlers)

\* RouterGroup.Use: the middleware is appended to the group's handlers.
groupUse(group, middleware) == group \o middleware

\* Defective variant of Use: the not-found and no-method chains are left as
\* they were combined before the middleware was attached.
UseNoRebuild(middleware) ==
    /\ Quiescent
    /\ Len(Handlers) + Len(middleware) <= MaxUse
    /\ Handlers' = groupUse(Handlers, middleware)
    /\ configured' = [configured EXCEPT !.use = @ \o middleware]
    /\ Forget
    /\ UNCHANGED << RedirectTrailingSlash, RedirectFixedPath, HandleMethodNotAllowed,
                    PanicHandler, trees, noRoute, allNoRoute, noMethod, allNoMethod, pool >>
    /\ UNCHANGED << HandleOPTIONS, maxParams, maxSections, contexts, raised, lab >>

\* Engine.Use: the middleware joins the group's handlers and both error
\* chains are combined again from the handlers set for them.
Use(middleware) ==
    /\ Quiescent
    /\ Len(Handlers) + Len(middleware) <= MaxUse
    /\ Handlers' = groupUse(Handlers, middleware)
    /\ allNoRoute' = combine(Handlers', noRoute)
    /\ allNoMethod' = combine(Handlers', noMethod)
    /\ configured' = [configured EXCEPT !.use = @ \o middleware]
    /\ Forget
    /\ UNCHANGED << RedirectTrailingSlash, RedirectFixedPath, HandleMethodNotAllowed,
                    PanicHandler, trees, noRoute, noMethod, pool >>
    /\ UNCHANGED << HandleOPTIONS, maxParams, maxSections, contexts, raised, lab >>

NotFound(handlers) ==
    /\ Quiescent
    /\ handlers # noRoute
    /\ noRoute' = handlers
    /\ allNoRoute' = combineHandlers(handlers)
    /\ configured' = [configured EXCEPT !.notFound = handlers]
    /\ Forget
    /\ UNCHANGED << RedirectTrailingSlash, RedirectFixedPath, HandleMethodNotAllowed,
                    PanicHandler, trees, noMethod, allNoMethod, pool >>
    /\ UNCHANGED << HandleOPTIONS, Handlers, maxParams, maxSections, contexts, raised, lab >>

NoMethod(handlers) ==
    /\ Quiescent
    /\ handlers # noMethod
    /\ noMethod' = handlers
    /\ allNoMethod' = combineHandlers(handlers)
    /\ configured' = [configured EXCEPT !.noMethod = handlers]
    /\ Forget
    /\ UNCHANGED << RedirectTrailingSlash, RedirectFixedPath, HandleMethodNotAllowed,
                    PanicHandler, trees, noRoute, allNoRoute, pool >>
    /\ UNCHANGED << HandleOPTIONS, Handlers, maxParams, maxSections, contexts, raised, lab >>

\* engine.trees after addRoute(method, path, handlers) was accepted: a tree is
\* appended for a method that has none, and the route inserted into the tree.
treesAfterAdd(method, path, handlers) ==
    LET i == TreeIndex(method)
        root == IF i = 0 THEN << >> ELSE trees[i].root
        grown == [p \in DOMAIN root \cup {path} |->
                    IF p = path THEN handlers ELSE root[p]]
    IN  IF i = 0 THEN Append(trees, [method |-> method, root |-> grown])
        ELSE [trees EXCEPT ![i].root = grown]

\* A handler that is nil.
NilHandler == << "nil", <<>> >>

\* Defective variant of validate: a nil handler in the chain is let through.
validateNoNil(method, path, handlers) ==
    IF path = <<>> THEN "index out of range"
    ELSE IF Head(path) # "/" THEN "path must begin with '/'"
    ELSE IF method = "" THEN "HTTP method can not be empty"
    ELSE IF Len(handlers) = 0 THEN "there must be at least one handler"
    ELSE ""

\* The checks addRoute starts with: the message of the panic, "" when they pass.
\* path[0] of an empty path is a run-time panic of its own.
validate(method, path, handlers) ==
    IF path = <<>> THEN "index out of range"
    ELSE IF Head(path) # "/" THEN "path must begin with '/'"
    ELSE IF method = "" THEN "HTTP method can not be empty"
    ELSE IF Len(handlers) = 0 THEN "there must be at least one handler"
    ELSE IF \E k \in DOMAIN handlers : handlers[k] = NilHandler
         THEN "handler can not be nil"
    ELSE ""

\* A catch-all segment that is not the last segment of the pattern.
CatchAllInside(path) ==
    \E k \in DOMAIN path : path[k] = "*" /\ \E l \in DOMAIN path : l > k /\ path[l] = "/"

\* Two patterns that some concrete path matches both.
Overlap(p, q) ==
    LET ps == Split(p)
        qs == Split(q)
    IN  /\ Len(ps) = Len(qs)
        /\ \A k \in DOMAIN ps : IsParam(ps[k]) \/ IsParam(qs[k]) \/ ps[k] = qs[k]

\* Two patterns with different parameter names at the same tree position.
ParamClash(p, q) ==
    LET ps == Split(p)
        qs == Split(q)
    IN  \E k \in DOMAIN ps \cap DOMAIN qs :
            /\ \A j \in 1 .. k - 1 : ps[j] = qs[j]
            /\ IsParam(ps[k]) /\ IsParam(qs[k]) /\ ps[k] # qs[k]

\* node.addRoute refuses a pattern: the message of its panic, "" when the
\* route is inserted.
treeRejects(root, path) ==
    IF CatchAllInside(path)
    THEN "catch-all routes are only allowed at the end of the path"
    ELSE IF path \in DOMAIN root THEN "handlers are already registered for path"
    ELSE IF \E q \in DOMAIN root :
               (HasParams(path) \/ HasParams(q)) /\ (Overlap(path, q) \/ ParamClash(path, q))
         THEN "pattern conflicts with an existing route"
    ELSE ""

\* engine.trees after the tree of the method was looked up, and appended when
\* the method had none.
treesWithRoot(method) ==
    IF TreeIndex(method) = 0
    THEN Append(trees, [method |-> method, root |-> << >>])
    ELSE trees

\* countParams: the number of parameter and catch-all markers in the pattern.
countParams(path) == Cardinality({ k \in DOMAIN path : path[k] \in {":", "*"} })

\* countSections: the number of slashes in the pattern.
countSections(path) == Cardinality({ k \in DOMAIN path : path[k] = "/" })

Max(a, b) == IF a > b THEN a ELSE b

\* The registration call that panicked, as its caller recovers it.
Raise(message, method, path, handlers) ==
    [ message |-> message, method |-> method, path |-> path, handlers |-> handlers ]

\* Engine.addRoute: the arguments are checked, the tree of the method found or
\* appended, and the route inserted into it; a panic of a check leaves the
\* engine as it was, a panic of the insertion comes after the tree was appended.
addRoute(method, path, handlers, limit) ==
    /\ Quiescent
    /\ NumRoutes < limit
    /\ LET invalid == validate(method, path, handlers)
           i == TreeIndex(method)
           root == IF i = 0 THEN << >> ELSE trees[i].root
           refused == treeRejects(root, path)
       IN  IF invalid # ""
           THEN /\ trees' = trees
                /\ raised' = Raise(invalid, method, path, handlers)
                /\ UNCHANGED << maxParams, maxSections >>
           ELSE IF refused # ""
                THEN /\ trees' = treesWithRoot(method)
                     /\ raised' = Raise(refused, method, path, handlers)
                     /\ UNCHANGED << maxParams, maxSections >>
                ELSE /\ trees' = treesAfterAdd(method, path, handlers)
                     /\ raised' = NoPanic
                     /\ maxParams' = Max(maxParams, countParams(path))
                     /\ maxSections' = Max(maxSections, countSections(path))
    /\ Forget
    /\ UNCHANGED << RedirectTrailingSlash, RedirectFixedPath, HandleMethodNotAllowed,
                    PanicHandler, noRoute, allNoRoute, noMethod, allNoMethod, pool >>
    /\ UNCHANGED << HandleOPTIONS, Handlers, configured, contexts, lab >>

\* (method, path) has no route yet.
Unregistered(method, path) ==
    LET i == TreeIndex(method)
    IN  IF i = 0 THEN TRUE ELSE path \notin DOMAIN trees[i].root

\* ------------------------------------------------------------- ServeHTTP

Held == { calls[r].ctx : r \in { q \in DOMAIN calls : InFlight(q) } }

\* The instance pool.New allocates: one that is neither at rest nor in use.
Fresh == CHOOSE c \in Contexts : c \notin pool \cup Held /\
                                 \A d \in Contexts \ (pool \cup Held) : c <= d

\* Defective variant of Get: the context is handed on as the pool gave it.
GetNoReset(r) ==
    /\ ~InFlight(r)
    /\ \E c \in Contexts :
         /\ IF pool # {} THEN c \in pool ELSE c = Fresh
         /\ pool' = pool \ {c}
         /\ calls' = [calls EXCEPT ![r] = [IdleCall EXCEPT !.pc = "acquired", !.ctx = c]]
         /\ contexts' = [contexts EXCEPT ![c] =
                           IF pool # {} THEN @ ELSE ZeroContext]
    /\ UNCHANGED << config, raised, lab >>

\* ctx := engine.pool.Get(); ctx.reset(w, req): an instance at rest leaves the
\* pool, or the pool is empty and New allocates one; it is reset at once.
Get(r) ==
    /\ ~InFlight(r)
    /\ \E c \in Contexts :
         /\ IF pool # {} THEN c \in pool ELSE c = Fresh
         /\ pool' = pool \ {c}
         /\ calls' = [calls EXCEPT ![r] = [IdleCall EXCEPT !.pc = "acquired", !.ctx = c]]
         /\ contexts' = [contexts EXCEPT ![c] =
                           reset(IF pool # {} THEN @ ELSE ZeroContext)]
    /\ UNCHANGED << config, raised, lab >>

\* Defective variant of Handle: the context is put back before the request is handled.
HandlePutEarly(r, methods, paths, prefixes, effects) ==
    /\ calls[r].pc = "acquired"
    /\ \E method \in methods, path \in paths, prefix \in prefixes, eff \in effects :
         LET req == [method |-> method, path |-> path, prefix |-> prefix]
             c == calls[r].ctx
             res == handleHTTPRequest(Begin(contexts[c]), req, eff)
             escaped == res.panicked /\ ~PanicHandler
         IN  /\ eff = "none" \/ res.handlers # nil
             /\ calls' = [calls EXCEPT ![r] =
                            [ pc |-> IF escaped THEN "panicked" ELSE "handled",
                              ctx |-> IF escaped THEN NoContext ELSE @.ctx,
                              req |-> req, eff |-> eff, res |-> res, puts |-> 0 ]]
             /\ contexts' = [contexts EXCEPT ![c] =
                               [ handlers |-> res.handlers, fullPath |-> res.fullPath,
                                 params |-> res.params ]]
    /\ pool' = pool \cup {calls[r].ctx}
    /\ UNCHANGED << config, raised, lab >>

\* engine.handleHTTPRequest(ctx) on the context as reset left it, for one request and one
\* behaviour of the handlers it reaches ("none" when it reaches no handler).
\* A panic that no PanicHandler recovers leaves ServeHTTP at once and the
\* context is not put back.
Handle(r, methods, paths, prefixes, effects) ==
    /\ calls[r].pc = "acquired"
    /\ \E method \in methods, path \in paths, prefix \in prefixes, eff \in effects :
         LET req == [method |-> method, path |-> path, prefix |-> prefix]
             c == calls[r].ctx
             res == handleHTTPRequest(Begin(contexts[c]), req, eff)
             escaped == res.panicked /\ ~PanicHandler
         IN  /\ eff = "none" \/ res.handlers # nil
             /\ calls' = [calls EXCEPT ![r] =
                            [ pc |-> IF escaped THEN "panicked" ELSE "handled",
                              ctx |-> IF escaped THEN NoContext ELSE @.ctx,
                              req |-> req, eff |-> eff, res |-> res, puts |-> 0 ]]
             /\ contexts' = [contexts EXCEPT ![c] =
                               [ handlers |-> res.handlers, fullPath |-> res.fullPath,
                                 params |-> res.params ]]
    /\ UNCHANGED << config, pool, raised, lab >>

\* engine.pool.Put(ctx), then ServeHTTP returns: the response, complete since
\* handleHTTPRequest returned, is with the caller and the call is over.
Put(r) ==
    /\ calls[r].pc = "handled"
    /\ pool' = pool \cup {calls[r].ctx}
    /\ calls' = [calls EXCEPT ![r] =
                   [IdleCall EXCEPT !.pc = "returned", !.puts = calls[r].puts + 1]]
    /\ UNCHANGED << config, contexts, raised, lab >>

\* sync.Pool may drop the instances at rest at any garbage collection.
PoolGC ==
    /\ pool # {}
    /\ pool' = {}
    /\ UNCHANGED << config, calls, contexts, raised, lab >>

\* ------------------------------------------------------- specifications

\* One caller at a time, every configuration of flags, chains and routes.
Next ==
    \/ SetRedirectTrailingSlash
    \/ SetRedirectFixedPath
    \/ SetHandleMethodNotAllowed
    \/ \E handlers \in {nil, <<NotFoundHandler>>} : NotFound(handlers)
    \/ \E handlers \in {nil, <<NoMethodHandler>>} : NoMethod(handlers)
    \/ \E method \in RouteMethods, path \in RoutePaths :
          /\ Unregistered(method, path)
          /\ addRoute(method, path, << RouteHandler(method, path) >>, MaxRoutes)
    \/ Get(1)
    \/ Handle(1, Methods, RequestPaths, Prefixes, Effects)
    \/ Put(1)

Spec == Init /\ [][Next]_vars

\* Concurrent callers on an engine with few routes.
PoolRequestPaths == { <<"/", "a">>, <<"/", "a", "/">> }

NextPool ==
    \/ SetPanicHandler
    \/ \E method \in {MethodGet}, path \in {<<"/", "a">>} :
          addRoute(method, path, << RouteHandler(method, path) >>, PoolMaxRoutes)
    \/ \E r \in 1 .. MaxInFlight : Get(r)
    \/ \E r \in 1 .. MaxInFlight : Handle(r, Methods, PoolRequestPaths, {<<>>}, Effects)
    \/ \E r \in 1 .. MaxInFlight : Put(r)
    \/ PoolGC

SpecPool == Init /\ [][NextPool]_vars

\* OPTIONS requests on an engine with GET and OPTIONS routes.
OptionsMethods == { MethodGet, MethodOptions }

OptionsPaths == { <<"/", "a">>, <<"/", "b">> }

NextOptions ==
    \/ SetHandleOPTIONS
    \/ SetHandleMethodNotAllowed
    \/ \E method \in OptionsMethods, path \in OptionsPaths :
          /\ Unregistered(method, path)
          /\ addRoute(method, path, << RouteHandler(method, path) >>, MaxRoutes)
    \/ Get(1)
    \/ Handle(1, OptionsMethods, OptionsPaths, {<<>>}, Effects)
    \/ Put(1)

SpecOptions == Init /\ [][NextOptions]_vars

\* Use, NotFound and NoMethod in every order, and the requests that reach the
\* two error chains.
Middleware(name) == << name, <<>> >>

Middlewares ==
    { << Middleware("m1") >>, << Middleware("m2") >>,
      << Middleware("m1"), Middleware("m2") >> }

UseRequestMethods == { MethodGet, MethodPost }

NextUse ==
    \/ \E middleware \in Middlewares : Use(middleware)
    \/ \E handlers \in {nil, <<NotFoundHandler>>} : NotFound(handlers)
    \/ \E handlers \in {nil, <<NoMethodHandler>>} : NoMethod(handlers)
    \/ \E path \in {<<"/", "a">>} :
          /\ Unregistered(MethodGet, path)
          /\ addRoute(MethodGet, path, << RouteHandler(MethodGet, path) >>, MaxRoutes)
    \/ Get(1)
    \/ Handle(1, UseRequestMethods, OptionsPaths, {<<>>}, Effects)
    \/ Put(1)

SpecUse == Init /\ [][NextUse]_vars

\* Routes with named parameters, and lookups of concrete paths.
LookupPatterns ==
    { <<"/", "a">>, <<"/", "u", "/", ":", "n">>,
      <<"/", "u", "/", ":", "n", "/", ":", "m">>,
      <<"/", ":", "x", "/", "b">>, <<"/", "u", "/", ":", "k">>,
      <<"/", "a", "/", "b", "/", "c">> }

LookupPaths ==
    { <<"/", "a">>, <<"/", "u">>, <<"/", "u", "/", "g">>, <<"/", "u", "/", "b">>,
      <<"/", "c", "/", "b">>, <<"/", "u", "/", "g", "/", "h">>,
      <<"/", "u", "/", "g", "/", "g">>, <<"/", "a", "/", "b", "/", "c">>,
      <<"/", "u", "/", "g", "/">> }

\* The two ServeHTTP calls whose lookups are compared.
LookupCalls == { 1, 2 }

NextLookup ==
    \/ \E path \in LookupPatterns :
          /\ Unregistered(MethodGet, path)
          /\ addRoute(MethodGet, path, << RouteHandler(MethodGet, path) >>, MaxLookupRoutes)
    \/ \E r \in LookupCalls : Get(r)
    \/ \E r \in LookupCalls : Handle(r, {MethodGet}, LookupPaths, {<<>>}, {"none"})
    \/ \E r \in LookupCalls : Put(r)

SpecLookup == Init /\ [][NextLookup]_vars

\* Registration calls of every kind, the refused ones recovered by the caller.
RegMethods == { "", MethodGet, MethodPost }

RegPaths == { <<>>, <<"a">>, <<"/", "a">>, <<"/", "b">>, <<"/", "*", "x", "/", "y">> }

RegChains(method, path) ==
    { <<>>, << RouteHandler(method, path) >>, << NilHandler >>,
      << RouteHandler(method, path), NilHandler >> }

NextReg ==
    \E method \in RegMethods, path \in RegPaths :
        \E handlers \in RegChains(method, path) :
            addRoute(method, path, handlers, RegMaxRoutes)

SpecReg == Init /\ [][NextReg]_vars

\* ------------------------------------------------------ the engine cache

CacheKeys == { "k1", "k2", "k3" }

\* The values stored: two strings, and nil, which may be stored like any other.
CacheValues == { "v1", "v2", "nil" }

engineVars == << config, pool, calls, contexts, raised >>

\* sync.Map.Load: the value and whether the key is present.
cacheLoad(key) ==
    IF key \in DOMAIN cache THEN [ value |-> cache[key], exists |-> TRUE ]
    ELSE [ value |-> "nil", exists |-> FALSE ]

\* Engine.Store
Store(key, value) ==
    /\ cache' = [k \in DOMAIN cache \cup {key} |-> IF k = key THEN value ELSE cache[k]]
    /\ loaded' = [ op |-> "Store", key |-> key, value |-> value, exists |-> FALSE,
                   panicked |-> FALSE ]
    /\ UNCHANGED << engineVars, invocation, run >>

\* Engine.Load
Load(key) ==
    /\ loaded' = [ op |-> "Load", key |-> key, value |-> cacheLoad(key).value,
                   exists |-> cacheLoad(key).exists, panicked |-> FALSE ]
    /\ UNCHANGED << engineVars, cache, invocation, run >>

\* Defective variant of MustLoad: an absent key gives nil instead of a panic.
MustLoadQuiet(key) ==
    /\ loaded' = [ op |-> "MustLoad", key |-> key, value |-> cacheLoad(key).value,
                   exists |-> cacheLoad(key).exists, panicked |-> FALSE ]
    /\ UNCHANGED << engineVars, cache, invocation, run >>

\* Engine.MustLoad: the value of a present key; a panic for an absent one.
MustLoad(key) ==
    /\ loaded' = IF cacheLoad(key).exists
                 THEN [ op |-> "MustLoad", key |-> key, value |-> cacheLoad(key).value,
                        exists |-> TRUE, panicked |-> FALSE ]
                 ELSE [ op |-> "MustLoad", key |-> key, value |-> "nil",
                        exists |-> FALSE, panicked |-> TRUE ]
    /\ UNCHANGED << engineVars, cache, invocation, run >>

NextCache ==
    \/ \E key \in CacheKeys, value \in CacheValues : Store(key, value)
    \/ \E key \in CacheKeys : Load(key)
    \/ \E key \in CacheKeys : MustLoad(key)

SpecCache == Init /\ [][NextCache]_vars

\* --------------------------------------------------- invoking handlers

\* A handler is invoked through call() as the first of a chain of two; each
\* handler is looked at on its own.
Invoke(handler) ==
    /\ ~invocation.done
    /\ invocation' =
          [ done |-> TRUE, handler |-> handler, called |-> call(handler),
            response |-> chainNext(NewContext(<< ChainHandler(handler, "no", FALSE),
                                                 Terminal >>)) ]
    /\ UNCHANGED << engineVars, cache, loaded, run >>

\* The handlers call() is given: a non-function, and functions with up to
\* MaxIn parameters and up to MaxOut results.
NextCall ==
    \/ Invoke(NotAFunc)
    \/ /\ ~invocation.done
       /\ \E o \in 0 .. MaxOut : \E returns \in [1 .. o -> ReturnValues] :
             Invoke(NoArgFunc(returns))
    \/ /\ ~invocation.done
       /\ \E i \in 1 .. MaxIn, o \in 0 .. MaxOut :
             \E binds \in [1 .. i - 1 -> BOOLEAN], returns \in [1 .. o -> ReturnValues] :
                 Invoke(HandlerFunc(binds, returns))

SpecCall == Init /\ [][NextCall]_vars

\* Next is called on a context bound to a chain; each chain is run on its own.
Run(chain) ==
    /\ ~run.done
    /\ run' = [ done |-> TRUE, response |-> chainNext(NewContext(chain)) ]
    /\ UNCHANGED << engineVars, cache, loaded, invocation >>

NextChain == ~run.done /\ \E chain \in Chains : Run(chain)

SpecChain == Init /\ [][NextChain]_vars

\* ------------------------------------------------- vocabulary of the claims

\* handleHTTPRequest is over for call r: it returned, or a panic left it.
Done(r) == calls[r].pc \in {"handled", "panicked"}

\* handleHTTPRequest returned to ServeHTTP for call r.
Served(r) == calls[r].pc = "handled"

\* A route for (method, path) was registered by addRoute.
Registered(method, path) ==
    \E i \in DOMAIN trees : trees[i].method = method /\ path \in DOMAIN trees[i].root

\* Some method other than `method` has a route for exactly this path.
RegisteredElsewhere(method, path) ==
    \E m \in Methods \ {method} : Registered(m, path)

Redirected(r) == "redirect" \in Range(calls[r].res.ran)

RanRoute(r) == "route" \in Range(calls[r].res.ran)

\* The path differs from a registered route of the method by one trailing slash.
SlashVariant(method, path) ==
    /\ path # <<"/">>
    /\ ~Registered(method, path)
    /\ Registered(method, ToggleSlash(path))

\* The request carries an X-Forwarded-Prefix that is non-empty after cleaning.
HasPrefix(req) == PathClean(req.prefix) # <<".">>

\* ---------------------------------------------------------------- claims

\* C1: a request whose method has a tree and whose path is registered for that
\* method runs exactly that route's handler chain and, unless a handler
\* panics, has its response finalized; the engine issues no redirect and sets
\* no 404 or 405, whatever the three flags and the X-Forwarded-Prefix header.
C1_ExactMatchRunsRoute ==
    \A r \in DOMAIN calls :
        LET c == calls[r]
        IN  Done(r) /\ Registered(c.req.method, c.req.path) =>
                /\ c.res.ran = <<"route">>
                /\ c.res.handlers = << RouteHandler(c.req.method, c.req.path) >>
                /\ c.res.fullPath = c.req.path
                /\ c.res.code = 0
                /\ c.res.w.location = <<>>
                /\ c.res.w.status \notin {StatusMovedPermanently, StatusPermanentRedirect,
                                          StatusNotFound, StatusMethodNotAllowed}
                /\ (~c.res.panicked => c.res.w.written)

\* C1 witness: a registered path served with every option off the default and
\* a prefix header on the request.
C1_Witness ==
    \E r \in DOMAIN calls :
        /\ Served(r)
        /\ Registered(calls[r].req.method, calls[r].req.path)
        /\ HasPrefix(calls[r].req)
        /\ ~RedirectTrailingSlash /\ ~RedirectFixedPath /\ ~HandleMethodNotAllowed
        /\ calls[r].res.w.written

\* The 405 condition of C2.
NotAllowedCase(req) ==
    HandleMethodNotAllowed /\ RegisteredElsewhere(req.method, req.path)

\* C2 (amended): for a request that is neither matched nor redirected, the
\* engine sets status 405 and runs the no-method chain if and only if
\* HandleMethodNotAllowed is enabled and another method has a route for exactly
\* the path; otherwise it sets status 404 and runs the not-found chain. The
\* response carries that status unless a handler of the chain set another one.
C2_ErrorStatus ==
    \A r \in DOMAIN calls :
        LET c == calls[r]
        IN  Done(r) /\ ~RanRoute(r) /\ ~Redirected(r) =>
                /\ (c.res.code = StatusMethodNotAllowed <=> NotAllowedCase(c.req))
                /\ NotAllowedCase(c.req) =>
                        c.res.ran = <<"nomethod">> /\ c.res.handlers = allNoMethod
                /\ ~NotAllowedCase(c.req) =>
                        /\ c.res.code = StatusNotFound
                        /\ c.res.ran = <<"notfound">>
                        /\ c.res.handlers = allNoRoute
                /\ (Served(r) /\ c.eff # "status" => c.res.w.status = c.res.code)

\* C2 witness: a 405 and its chain, with a custom no-method handler that writes.
C2_Witness ==
    \E r \in DOMAIN calls :
        /\ Served(r)
        /\ calls[r].res.code = StatusMethodNotAllowed
        /\ calls[r].res.handlers = <<NoMethodHandler>>
        /\ calls[r].eff = "write"
        /\ calls[r].res.w.status = StatusMethodNotAllowed

\* C2 as stated: the response status itself is 405 exactly in the 405 case and
\* 404 in every other case.
C2_Original ==
    \A r \in DOMAIN calls :
        LET c == calls[r]
        IN  Served(r) /\ ~RanRoute(r) /\ ~Redirected(r) =>
                /\ (c.res.w.status = StatusMethodNotAllowed <=> NotAllowedCase(c.req))
                /\ ~NotAllowedCase(c.req) =>
                        c.res.handlers = allNoRoute /\ c.res.w.status = StatusNotFound

\* Method names in ascending alphabetical order.
SortedMethods == << MethodConnect, MethodGet, MethodHead, MethodOptions, MethodPost >>

\* The Allow header of C3: OPTIONS and every method with a route for the path.
AllowFor(path) ==
    LET Listed(m) == m = MethodOptions \/ Registered(m, path)
    IN  SelectSeq(SortedMethods, Listed)

\* C3: every 405 response carries an Allow header listing, in alphabetical
\* order and each once, OPTIONS and the methods that have a route for the path,
\* whatever the no-method chain did afterwards.
C3_AllowHeader ==
    \A r \in DOMAIN calls :
        Done(r) /\ calls[r].res.code = StatusMethodNotAllowed =>
            calls[r].res.w.allow = AllowFor(calls[r].req.path)

\* C4 (amended): a redirect has status 301 when the request method is GET and
\* 308 for every other method, HEAD included.
C4_RedirectCode ==
    \A r \in DOMAIN calls :
        Done(r) /\ Redirected(r) =>
            calls[r].res.w.status =
                IF calls[r].req.method = MethodGet
                THEN StatusMovedPermanently ELSE StatusPermanentRedirect

\* C4 witness: a HEAD request redirected with 308.
C4_Witness ==
    \E r \in DOMAIN calls :
        /\ Served(r) /\ Redirected(r)
        /\ calls[r].req.method = MethodHead
        /\ calls[r].res.w.status = StatusPermanentRedirect

\* C4 as stated: 301 for GET and HEAD, 308 otherwise.
C4_Original ==
    \A r \in DOMAIN calls :
        Done(r) /\ Redirected(r) =>
            calls[r].res.w.status =
                IF calls[r].req.method \in {MethodGet, MethodHead}
                THEN StatusMovedPermanently ELSE StatusPermanentRedirect

\* The cleaned X-Forwarded-Prefix of the request, empty when it carries none.
PrefixOf(req) == IF HasPrefix(req) THEN PathClean(req.prefix) ELSE <<>>

\* C5 (amended): with RedirectTrailingSlash enabled, a request (method other
\* than CONNECT, path other than "/") whose path is not registered for its
\* method but differs from a registered route of it by one trailing slash is
\* redirected, no handler chain is run, and the Location is the registered path
\* (slash removed or added), preceded by the cleaned X-Forwarded-Prefix when
\* the request carries one.
C5_TrailingSlashRedirect ==
    \A r \in DOMAIN calls :
        LET c == calls[r]
        IN  /\ Done(r)
            /\ RedirectTrailingSlash
            /\ c.req.method # MethodConnect
            /\ SlashVariant(c.req.method, c.req.path)
            =>  /\ c.res.ran = <<"redirect">>
                /\ c.res.handlers = nil
                /\ c.res.w.location = PrefixOf(c.req) \o ToggleSlash(c.req.path)

\* C5 witness: a slash removed and a prefix prepended.
C5_Witness ==
    \E r \in DOMAIN calls :
        /\ Served(r)
        /\ RedirectTrailingSlash
        /\ SlashVariant(calls[r].req.method, calls[r].req.path)
        /\ HasSuffixSlash(calls[r].req.path)
        /\ HasPrefix(calls[r].req)
        /\ Redirected(r)
        /\ calls[r].res.w.location = <<"/", "p", "/", "a">>

\* C5 as stated: the Location is the registered path itself.
C5_Original ==
    \A r \in DOMAIN calls :
        LET c == calls[r]
        IN  /\ Done(r)
            /\ RedirectTrailingSlash
            /\ c.req.method # MethodConnect
            /\ SlashVariant(c.req.method, c.req.path)
            =>  /\ c.res.ran = <<"redirect">>
                /\ c.res.handlers = nil
                /\ c.res.w.location = ToggleSlash(c.req.path)

\* The only route of the method that the path resembles is the one it differs
\* from by a trailing slash (no other one equals it up to letter case).
OnlySlashVariant(method, path) ==
    /\ SlashVariant(method, path)
    /\ \A p \in RoutePaths :
         Registered(method, p) /\ Fold(p) \in {Fold(path), Fold(ToggleSlash(path))}
            => p = ToggleSlash(path)

\* C6: with RedirectTrailingSlash disabled, a request that differs from a route
\* of its method only by a trailing slash, and that no other method matches,
\* is answered 404 and never redirected, for both values of RedirectFixedPath.
C6_NoRedirectWhenDisabled ==
    \A r \in DOMAIN calls :
        LET c == calls[r]
        IN  /\ Done(r)
            /\ ~RedirectTrailingSlash
            /\ OnlySlashVariant(c.req.method, c.req.path)
            /\ ~RegisteredElsewhere(c.req.method, c.req.path)
            =>  /\ c.res.ran = <<"notfound">>
                /\ c.res.code = StatusNotFound
                /\ c.res.w.location = <<>>

\* Route p of the method differs from the request path only in letter case or
\* by superfluous path elements.
CaseVariant(method, path, p) ==
    /\ Registered(method, p)
    /\ p # path
    /\ Fold(p) = Fold(CleanPath(path))

HasCaseVariant(method, path) ==
    ~Registered(method, path) /\ \E p \in RoutePaths : CaseVariant(method, path, p)

\* Route q of the method equals the cleaned request path up to letter case and
\* one trailing slash.
Correction(method, path, q) ==
    /\ Registered(method, q)
    /\ Fold(q) \in {Fold(CleanPath(path)), Fold(ToggleSlash(CleanPath(path)))}

\* C7 (amended): a request whose path differs from a route of its method only
\* in letter case or by superfluous elements never runs a route's chain. With
\* RedirectFixedPath enabled and a method other than CONNECT it is redirected
\* to a registered path of its method that equals the cleaned request path up
\* to letter case and one trailing slash. With RedirectFixedPath disabled, or
\* for CONNECT, it is answered 404 or 405, except that with RedirectFixedPath
\* disabled a method other than CONNECT still gets the trailing-slash redirect
\* when RedirectTrailingSlash is enabled and the path with its slash toggled
\* is registered.
C7_CaseOnlyByRedirect ==
    \A r \in DOMAIN calls :
        LET c == calls[r]
            fix == RedirectFixedPath /\ c.req.method # MethodConnect
            slash == /\ RedirectTrailingSlash
                     /\ c.req.method # MethodConnect
                     /\ SlashVariant(c.req.method, c.req.path)
        IN  Done(r) /\ HasCaseVariant(c.req.method, c.req.path) =>
                /\ ~RanRoute(r)
                /\ fix =>
                      /\ c.res.ran = <<"redirect">>
                      /\ \E q \in RoutePaths :
                            /\ Correction(c.req.method, c.req.path, q)
                            /\ c.res.w.location \in {q, PrefixOf(c.req) \o q}
                /\ ~fix /\ slash =>
                      /\ c.res.ran = <<"redirect">>
                      /\ c.res.w.location = PrefixOf(c.req) \o ToggleSlash(c.req.path)
                /\ ~fix /\ ~slash =>
                      /\ c.res.ran \in {<<"notfound">>, <<"nomethod">>}
                      /\ c.res.code \in {StatusNotFound, StatusMethodNotAllowed}

\* C7 witness: a request in the wrong case redirected to the stored path.
C7_Witness ==
    \E r \in DOMAIN calls :
        /\ Served(r)
        /\ RedirectFixedPath
        /\ calls[r].req.path = <<"/", "A">>
        /\ CaseVariant(calls[r].req.method, calls[r].req.path, <<"/", "a">>)
        /\ ~SlashVariant(calls[r].req.method, calls[r].req.path)
        /\ calls[r].res.w.location = <<"/", "a">>

\* C7 as stated: no run of that route's chain; a redirect to exactly that route
\* whenever RedirectFixedPath is enabled; 404 or 405 whenever it is disabled.
C7_Original ==
    \A r \in DOMAIN calls :
        LET c == calls[r]
        IN  Done(r) /\ HasCaseVariant(c.req.method, c.req.path) =>
                \A p \in RoutePaths :
                    CaseVariant(c.req.method, c.req.path, p) =>
                        /\ c.res.handlers # << RouteHandler(c.req.method, p) >>
                        /\ RedirectFixedPath =>
                              c.res.ran = <<"redirect">> /\ c.res.w.location = p
                        /\ ~RedirectFixedPath =>
                              c.res.code \in {StatusNotFound, StatusMethodNotAllowed}

\* C8: the Location of every redirect, trailing-slash and fixed-path alike, is
\* the corrected (registered) path, preceded by the X-Forwarded-Prefix when the
\* request carries one that is non-empty after cleaning.
C8_PrefixOnEveryRedirect ==
    \A r \in DOMAIN calls :
        LET c == calls[r]
        IN  Done(r) /\ Redirected(r) =>
                \E q \in RoutePaths :
                    /\ Registered(c.req.method, q)
                    /\ c.res.w.location = PrefixOf(c.req) \o q

\* C9: a call in which no handler panicked has, when handleHTTPRequest returns,
\* exactly one outcome: the route's chain was run, or a redirect was issued, or
\* the 405 chain was run, or the 404 chain was run; and its response is final.
C9_ExactlyOneOutcome ==
    \A r \in DOMAIN calls :
        LET c == calls[r]
        IN  Served(r) /\ ~c.res.panicked =>
                /\ Len(c.res.ran) = 1
                /\ c.res.ran[1] \in {"route", "redirect", "nomethod", "notfound"}
                /\ c.res.w.written
                /\ c.res.ran[1] = "route" => c.res.handlers # nil /\ c.res.code = 0
                /\ c.res.ran[1] = "redirect" =>
                        /\ c.res.w.location # <<>>
                        /\ c.res.handlers = nil
                        /\ c.res.code = 0
                /\ c.res.ran[1] = "nomethod" => c.res.code = StatusMethodNotAllowed
                /\ c.res.ran[1] = "notfound" => c.res.code = StatusNotFound

\* C9 witness: a trailing-slash redirect as the single outcome.
C9_Witness ==
    \E r \in DOMAIN calls :
        /\ Served(r)
        /\ calls[r].res.ran = <<"redirect">>
        /\ RedirectTrailingSlash
        /\ SlashVariant(calls[r].req.method, calls[r].req.path)

\* C10: a context instance is held by at most one call in flight: between
\* pool.Get and pool.Put no other call holds it and it is not in the pool.
C10_ContextExclusive ==
    \A r \in DOMAIN calls :
        InFlight(r) =>
            /\ calls[r].ctx \in Contexts
            /\ calls[r].ctx \notin pool
            /\ \A q \in DOMAIN calls \ {r} : InFlight(q) => calls[q].ctx # calls[r].ctx

\* C10 witness: two calls in flight at once, one already handled and the other
\* just given its context.
C10_Witness ==
    \E r, q \in DOMAIN calls :
        /\ r # q
        /\ calls[r].pc = "handled"
        /\ calls[q].pc = "acquired"
        /\ calls[r].ctx # calls[q].ctx

\* C11 (as amended): a context taken by ServeHTTP is reset before it is used,
\* it is not in the pool while the request is handled, and it is put back
\* exactly once when ServeHTTP returns, which is after the chain ran and the
\* response was finalized or after PanicHandler handled a panic. When a panic
\* leaves ServeHTTP (no PanicHandler) the context is not put back.
C11_ContextLifecycle ==
    \A r \in DOMAIN calls :
        LET c == calls[r]
        IN  /\ c.pc = "acquired" =>
                /\ contexts[c.ctx] = ZeroContext
                /\ c.ctx \notin pool
                /\ c.puts = 0
            /\ c.pc = "handled" =>
                /\ c.ctx \notin pool
                /\ c.puts = 0
                /\ ~c.res.panicked => c.res.w.written
                /\ c.res.panicked => c.res.recovered = 1
                /\ ~RanRoute(r) => c.res.fullPath = <<>>
            /\ c.pc = "returned" => c.puts = 1
            /\ c.pc = "panicked" =>
                /\ c.puts = 0
                /\ c.res.panicked
                /\ ~PanicHandler
            /\ c.puts > 0 => c.pc = "returned"

\* C11 witness: one call has put its context back while another, whose
\* handler panicked, is past PanicHandler and still holds its own.
C11_Witness ==
    \E r, q \in DOMAIN calls :
        /\ calls[r].pc = "returned"
        /\ calls[r].puts = 1
        /\ calls[q].pc = "handled"
        /\ calls[q].res.panicked
        /\ calls[q].res.recovered = 1

\* C11 as first stated: every call that left ServeHTTP, by return or by a
\* handler's panic, has put its context back exactly once.
C11_Original ==
    \A r \in DOMAIN calls :
        calls[r].pc \in {"returned", "panicked"} => calls[r].puts = 1

\* C12: with a PanicHandler, a panic of a handler is recovered, PanicHandler is
\* invoked exactly once with the panic value and ServeHTTP goes on to return;
\* without one the panic leaves ServeHTTP; with no panic PanicHandler is not
\* invoked.
C12_PanicHandling ==
    \A r \in DOMAIN calls :
        LET c == calls[r]
        IN  Done(r) =>
              /\ (c.eff = "panic" /\ PanicHandler) =>
                    /\ c.pc = "handled"
                    /\ c.res.panicked
                    /\ c.res.recovered = 1
                    /\ c.res.rcv = PanicValue
              /\ (c.eff = "panic" /\ ~PanicHandler) =>
                    /\ c.pc = "panicked"
                    /\ c.res.recovered = 0
              /\ c.eff # "panic" =>
                    /\ c.pc = "handled"
                    /\ ~c.res.panicked
                    /\ c.res.recovered = 0

\* C12 witness: a handler panicked and PanicHandler was given the value.
C12_Witness ==
    \E r \in DOMAIN calls :
        /\ calls[r].pc = "handled"
        /\ calls[r].eff = "panic"
        /\ PanicHandler
        /\ calls[r].res.recovered = 1
        /\ calls[r].res.rcv = PanicValue

\* The panics of the checks addRoute makes on its arguments.
CheckMessages ==
    { "index out of range", "path must begin with '/'", "HTTP method can not be empty",
      "there must be at least one handler", "handler can not be nil" }

\* The arguments are ones addRoute must refuse.
Invalid(method, path, handlers) ==
    \/ method = ""
    \/ path = <<>>
    \/ Head(path) # "/"
    \/ handlers = <<>>
    \/ NilHandler \in Range(handlers)

\* A request for (method, path) runs the chain of a route.
ServesRoute(method, path) ==
    LET req == [method |-> method, path |-> path, prefix |-> <<>>]
    IN  "route" \in Range(handleHTTPRequest(Begin(ZeroContext), req, "none").ran)

\* Every route in the trees was registered with arguments addRoute accepts.
OnlyValidRoutes ==
    \A i \in DOMAIN trees :
        /\ trees[i].method # ""
        /\ \A p \in DOMAIN trees[i].root :
              ~Invalid(trees[i].method, p, trees[i].root[p])

\* C13 (as amended): addRoute panics whenever the method is empty, the path is
\* empty or does not begin with '/', the chain is empty or holds a nil handler:
\* nothing with such arguments is ever registered, a panic of these checks is
\* raised only for such arguments, and the call that raised it leaves the
\* method trees and the routes they serve exactly as they were.
C13_InvalidRegistrationPanics ==
    /\ [](/\ OnlyValidRoutes
          /\ raised.message \in CheckMessages =>
                Invalid(raised.method, raised.path, raised.handlers))
    /\ [][(raised' # raised /\ raised'.message \in CheckMessages) => trees' = trees]_vars

\* C13 witness: a chain holding a nil handler was refused on an engine that
\* already has a route.
C13_Witness ==
    /\ raised.message = "handler can not be nil"
    /\ Len(raised.handlers) = 2
    /\ NumRoutes > 0

\* C13 as first stated: after a refused call no route for its method and path
\* is served.
C13_Original ==
    /\ OnlyValidRoutes
    /\ (raised.message \in CheckMessages /\ raised.path # <<>>) =>
          ~ServesRoute(raised.method, raised.path)

\* C14: the method table holds exactly one tree for each method that has a
\* registered route and no tree for a method without one, whatever calls of
\* addRoute were made, the ones that panicked included.
C14_OneTreePerMethod ==
    /\ \A i, j \in DOMAIN trees : trees[i].method = trees[j].method => i = j
    /\ \A i \in DOMAIN trees : DOMAIN trees[i].root # {}

\* C15: Load(k) returns the value of the latest Store(k, v) and true, or nil
\* and false when k was never stored; MustLoad(k) returns the same value for a
\* present key and panics exactly for an absent one; Load and MustLoad leave
\* the cache unchanged. The latest Store is followed through the steps: a Store
\* sets its key and no other, and a key is present only once it was stored.
C15_CacheLoadStore ==
    /\ [](/\ loaded.op = "Store" =>
                /\ loaded.key \in DOMAIN cache
                /\ cache[loaded.key] = loaded.value
          /\ loaded.op = "Load" =>
                IF loaded.key \in DOMAIN cache
                THEN loaded.exists /\ loaded.value = cache[loaded.key]
                ELSE ~loaded.exists /\ loaded.value = "nil"
          /\ loaded.op = "MustLoad" =>
                IF loaded.key \in DOMAIN cache
                THEN ~loaded.panicked /\ loaded.value = cache[loaded.key]
                ELSE loaded.panicked)
    /\ [][/\ loaded'.op \in {"Load", "MustLoad"} => cache' = cache
          /\ loaded'.op = "Store" =>
                /\ DOMAIN cache' = DOMAIN cache \cup {loaded'.key}
                /\ \A k \in DOMAIN cache \ {loaded'.key} : cache'[k] = cache[k]]_vars

\* C15 witness: MustLoad panicked for a key never stored while another key
\* holds a value.
C15_Witness ==
    /\ loaded.op = "MustLoad"
    /\ loaded.panicked
    /\ loaded.key \notin DOMAIN cache
    /\ \E k \in DOMAIN cache : cache[k] = "v2"

\* The first parameter after the context that bind fails on.
FirstFailed(handler) ==
    CHOOSE i \in DOMAIN handler.binds :
        /\ ~handler.binds[i]
        /\ \A j \in DOMAIN handler.binds : ~handler.binds[j] => i <= j

\* call() gets as far as binding the handler's parameters, and one fails.
BindFails(handler) ==
    /\ handler.isFunc
    /\ handler.numOut <= 2
    /\ handler.numIn >= 2
    /\ \E i \in DOMAIN handler.binds : ~handler.binds[i]

\* C16: when binding a parameter of the handler fails, the handler function is
\* not invoked, no later parameter is bound, and the outcome is an error value
\* with status 400 and code BIND_ERROR wrapping the error of bind; nothing
\* panics.
C16_BindErrorOutcome ==
    (invocation.done /\ BindFails(invocation.handler)) =>
        LET first == FirstFailed(invocation.handler)
            called == invocation.called
        IN  /\ ~called.panicked
            /\ ~called.invoked
            /\ called.bound = first
            /\ called.outcome = Value("httpError", StatusBadRequest, "BIND_ERROR",
                                      bindError(first))
            /\ ~invocation.response.panicked
            /\ invocation.response.status = StatusBadRequest

\* C16 witness: the first of two parameters could not be bound, the second
\* could have been.
C16_Witness ==
    /\ invocation.done
    /\ invocation.handler.binds = << FALSE, TRUE >>
    /\ invocation.handler.numOut = 1
    /\ invocation.called.bound = 1
    /\ ~invocation.called.invoked

\* C17: the outcome of an invoked handler goes by the number of its results:
\* nil for none; the value for one; for two the second if it is an error, the
\* first otherwise.
C17_OutcomeByArity ==
    (invocation.done /\ invocation.called.invoked) =>
        LET returns == invocation.handler.returns
            outcome == invocation.called.outcome
        IN  /\ invocation.handler.numOut = 0 => outcome = Nil
            /\ invocation.handler.numOut = 1 => outcome = returns[1]
            /\ invocation.handler.numOut = 2 =>
                  outcome = IF IsError(returns[2]) THEN returns[2] ELSE returns[1]

\* C17 witness: a handler returned a payload together with an error, and the
\* error is the outcome.
C17_Witness ==
    /\ invocation.done
    /\ invocation.called.invoked
    /\ invocation.handler.numOut = 2
    /\ invocation.handler.returns[1].kind = "struct"
    /\ invocation.handler.returns[2].kind = "error"
    /\ invocation.called.outcome.kind = "error"

\* The handler returns (payload, code) or (payload, code, nil).
ReturnsStatus(handler) ==
    /\ handler.isFunc
    /\ \A i \in DOMAIN handler.binds : handler.binds[i]
    /\ handler.numOut \in {2, 3}
    /\ handler.returns[1].kind \in {"string", "struct"}
    /\ handler.returns[2].kind = "int"
    /\ handler.numOut = 3 => handler.returns[3] = Nil

\* C18: a handler returning (payload, code) or (payload, code, nil) gives a
\* response with that code as status and the payload as body, and invoking it
\* does not panic.
C18_StatusFromReturn ==
    (invocation.done /\ ReturnsStatus(invocation.handler)) =>
        /\ ~invocation.called.panicked
        /\ ~invocation.response.panicked
        /\ invocation.response.status = invocation.handler.returns[2].code
        /\ invocation.response.body = invocation.handler.returns[1]

\* The later handler of the chain ran.
TerminalRan(c) == <<"enter", 2>> \in Range(c.trace)

\* What the outcomes both statements agree on: errors, strings and nil.
MappedAsStated(outcome, c) ==
    /\ outcome.kind \in {"httpError", "statusError"} =>
          c.status = outcome.code /\ c.renderer = "json" /\ c.body = outcome
    /\ outcome.kind = "error" =>
          /\ c.status = StatusBadRequest
          /\ c.renderer = "json"
          /\ c.body.err = outcome.text
    /\ outcome.kind = "string" =>
          c.status = StatusOK /\ c.renderer = "text" /\ c.body = outcome
    /\ outcome.kind = "nil" =>
          /\ c.renderer = ""
          /\ c.body = Nil
          /\ ~IsAborted(c)
          /\ TerminalRan(c)
    /\ outcome.kind # "nil" => IsAborted(c) /\ ~TerminalRan(c)

Entered(trace) == SelectSeq(trace, LAMBDA e : e[1] = "enter")

\* C20: the handlers of a chain are invoked in index order from the first, each
\* at most once; after a handler called abort no further handler is invoked,
\* the handlers that had called Next still run their code after Next, and the
\* return value of a handler that aborted is not rendered.
C20_ChainOrderAndAbort ==
    run.done =>
        LET c == run.response
            t == c.trace
        IN  /\ Len(Entered(t)) >= 1
            /\ \A n \in DOMAIN Entered(t) : Entered(t)[n][2] = n
            /\ \A p, q \in DOMAIN t :
                  (p < q /\ t[p][1] = "abort") => t[q][1] # "enter"
            /\ \A i \in DOMAIN c.handlers :
                  (<<"enter", i>> \in Range(t) /\ c.handlers[i].next) =>
                      <<"after", i>> \in Range(t)
            /\ \A i \in DOMAIN c.handlers :
                  <<"abort", i>> \in Range(t) => <<"render", i>> \notin Range(t)

\* C20 witness: the second handler aborted while the first was inside Next;
\* the first ran its code after Next and the third was never invoked.
C20_Witness ==
    /\ run.done
    /\ Len(run.response.handlers) = 3
    /\ \E p, q \in DOMAIN run.response.trace :
          /\ p < q
          /\ run.response.trace[p] = <<"abort", 2>>
          /\ run.response.trace[q] = <<"after", 1>>
    /\ <<"enter", 3>> \notin Range(run.response.trace)

\* The default body of the status the engine preset.
DefaultBody(code) == IF code = StatusMethodNotAllowed THEN default405Body ELSE default404Body

\* C21: for a request resolved to 404 or 405 whose chain returned: when the
\* chain wrote nothing and left the status alone, the body is exactly the
\* default body of that status, sent as plain text with that status; when the
\* chain wrote, the response is what the chain wrote and the default body is
\* not appended; when the chain changed the status without writing, the
\* response has the changed status and an empty body.
C21_DefaultBodies ==
    \A r \in DOMAIN calls :
        LET c == calls[r]
            w == c.res.w
        IN  Served(r) /\ c.res.code \in {StatusNotFound, StatusMethodNotAllowed}
                      /\ ~c.res.panicked =>
                /\ w.written
                /\ (c.res.handlers = nil \/ c.eff = "none") =>
                        /\ w.body = DefaultBody(c.res.code)
                        /\ w.contentType = MIMEPlain
                        /\ w.status = c.res.code
                /\ (c.res.handlers # nil /\ c.eff = "write") =>
                        /\ w.body = "handler"
                        /\ w.contentType # MIMEPlain
                /\ (c.res.handlers # nil /\ c.eff = "status") =>
                        /\ w.status = StatusTeapot
                        /\ w.body = ""
                        /\ w.contentType # MIMEPlain

\* C21 witness: a 405 whose custom no-method handler changed the status and
\* wrote nothing, answered without the default body.
C21_Witness ==
    \E r \in DOMAIN calls :
        /\ Served(r)
        /\ calls[r].res.code = StatusMethodNotAllowed
        /\ calls[r].res.handlers = <<NoMethodHandler>>
        /\ calls[r].eff = "status"
        /\ calls[r].res.w.status = StatusTeapot
        /\ calls[r].res.w.body = ""

\* C22: with HandleOPTIONS enabled, an OPTIONS request for a path that has an
\* OPTIONS route runs that route, and one for a path that has routes under
\* other methods only is answered by the router itself, with the Allow header
\* set and neither 404 nor 405.
C22_OptionsAutoReply ==
    \A r \in DOMAIN calls :
        LET c == calls[r]
            registered == \E i \in DOMAIN trees : c.req.path \in DOMAIN trees[i].root
        IN  Done(r) /\ HandleOPTIONS /\ c.req.method = MethodOptions =>
                /\ Registered(MethodOptions, c.req.path) =>
                        /\ c.res.ran = <<"route">>
                        /\ c.res.handlers = << RouteHandler(MethodOptions, c.req.path) >>
                /\ (registered /\ ~Registered(MethodOptions, c.req.path)) =>
                        /\ c.res.code \notin {StatusNotFound, StatusMethodNotAllowed}
                        /\ c.res.w.status \notin {StatusNotFound, StatusMethodNotAllowed}
                        /\ c.res.w.allow # <<>>

\* C23: after any sequence of Use, NotFound and NoMethod calls the global
\* middleware is everything passed to Use in call order, the chain bound and
\* run for a 404 is that middleware followed by the handlers of the latest
\* NotFound call, and the chain for a 405 is that middleware followed by the
\* handlers of the latest NoMethod call.
C23_ErrorChains ==
    /\ Handlers = configured.use
    /\ allNoRoute = configured.use \o configured.notFound
    /\ allNoMethod = configured.use \o configured.noMethod
    /\ \A r \in DOMAIN calls :
          LET c == calls[r]
          IN  /\ Done(r) /\ c.res.code = StatusNotFound =>
                    c.res.handlers = configured.use \o configured.notFound
              /\ Done(r) /\ c.res.code = StatusMethodNotAllowed =>
                    c.res.handlers = configured.use \o configured.noMethod

\* C23 witness: a 405 served by two middleware handlers, attached by separate
\* Use calls in the order m2, m1, followed by the custom no-method handler.
C23_Witness ==
    \E r \in DOMAIN calls :
        /\ Served(r)
        /\ calls[r].res.code = StatusMethodNotAllowed
        /\ calls[r].res.handlers =
               << Middleware("m2"), Middleware("m1"), NoMethodHandler >>
        /\ calls[r].eff = "write"
        /\ calls[r].res.w.body = "handler"

\* The segments of a pattern with its named parameters replaced, in order, by
\* the values.
RECURSIVE Fill(_, _)
Fill(segs, vals) ==
    IF segs = <<>> THEN <<>>
    ELSE IF IsParam(Head(segs))
         THEN << Head(vals) >> \o Fill(Tail(segs), Tail(vals))
         ELSE << Head(segs) >> \o Fill(Tail(segs), vals)

\* The concrete path a pattern stands for under the parameter values.
Instantiate(pattern, vals) == Join(Fill(Split(pattern), vals))

\* The names of a pattern's parameters in the order of declaration.
RECURSIVE Names(_)
Names(segs) ==
    IF segs = <<>> THEN <<>>
    ELSE (IF IsParam(Head(segs)) THEN << Tail(Head(segs)) >> ELSE <<>>)
            \o Names(Tail(segs))

\* The path segments requests put in the place of a parameter.
ParamValues == { <<"g">>, <<"h">>, <<"b">> }

\* A lookup served call r as the claim states, whatever pattern of the
\* request method's tree and whatever parameter values give the request path.
LookupAsStated(r) ==
    LET c == calls[r]
    IN  \A i \in DOMAIN trees : trees[i].method = c.req.method =>
            \A pattern \in DOMAIN trees[i].root :
                LET names == Names(Split(pattern))
                IN  \A vals \in [1 .. Len(names) -> ParamValues] :
                        Instantiate(pattern, vals) = c.req.path =>
                            /\ c.res.ran = <<"route">>
                            /\ c.res.handlers = trees[i].root[pattern]
                            /\ c.res.fullPath = pattern
                            /\ c.res.params =
                                  [j \in 1 .. Len(names) |-> << names[j], vals[j] >>]

\* C24: for every registered (method, pattern) and every concrete path that
\* matches it, the lookup gives exactly the chain registered for the pattern
\* and the parameter list: empty without parameters, otherwise one
\* (name, value) pair per named parameter, the value being the path segment
\* in its place, in the order of declaration. The same lookup made twice gives
\* the same result, and a lookup leaves the trees as they are.
C24_LookupParams ==
    /\ [](\A r \in DOMAIN calls : Done(r) => LookupAsStated(r))
    /\ [](\A r, q \in DOMAIN calls :
             Done(r) /\ Done(q) /\ calls[r].req = calls[q].req =>
                 calls[r].res = calls[q].res)
    /\ [][(\E r \in DOMAIN calls : calls[r].pc = "acquired" /\ Done(r)') =>
             trees' = trees]_vars

\* C24 witness: a pattern with two named parameters looked up twice, each
\* time with both values in the order of the pattern.
C24_Witness ==
    \A r \in LookupCalls :
        /\ Done(r)
        /\ calls[r].req.path = <<"/", "u", "/", "g", "/", "h">>
        /\ calls[r].res.fullPath = <<"/", "u", "/", ":", "n", "/", ":", "m">>
        /\ calls[r].res.params = << << <<"n">>, <<"g">> >>, << <<"m">>, <<"h">> >> >>
        /\ calls[r].res.ran = <<"route">>

\* The request method has a tree.
HasTree(method) == \E i \in DOMAIN trees : trees[i].method = method

\* The request method's tree misses the path and holds a correction for it
\* that is enabled: the path with its trailing slash toggled, or a path equal
\* to the cleaned request path up to letter case and one trailing slash.
EnabledCorrection(req) ==
    /\ ~Registered(req.method, req.path)
    /\ \/ RedirectTrailingSlash /\ SlashVariant(req.method, req.path)
       \/ /\ RedirectFixedPath
          /\ \E q \in RoutePaths : Correction(req.method, req.path, q)

\* The redirect decisions of C25 for the requests of the given methods.
RedirectDecisions(methods) ==
    \A r \in DOMAIN calls :
        LET c == calls[r]
        IN  Done(r) =>
                /\ ~HasTree(c.req.method) =>
                        /\ c.res.ran \in {<<"notfound">>, <<"nomethod">>}
                        /\ c.res.code \in {StatusNotFound, StatusMethodNotAllowed}
                        /\ c.res.w.location = <<>>
                /\ (c.req.method \in methods /\ EnabledCorrection(c.req)) =>
                        /\ c.res.ran = <<"redirect">>
                        /\ c.res.code = 0
                /\ (/\ c.req.method \in methods
                    /\ RedirectTrailingSlash
                    /\ SlashVariant(c.req.method, c.req.path)) =>
                        c.res.w.location = PrefixOf(c.req) \o ToggleSlash(c.req.path)

\* C25 (amended): redirects depend only on the tree of the request's own
\* method and come before the 405 probe. A request whose method has no tree is
\* never redirected: it is answered 405 or 404. A request of a method other
\* than CONNECT whose tree misses the path and holds an enabled trailing-slash
\* or fixed-path correction is redirected, also when another method has a
\* route for exactly the path; when the trailing-slash correction applies it
\* is the one taken.
C25_RedirectBeforeProbe == RedirectDecisions(Methods \ {MethodConnect})

\* C25 witness: with the 405 handling on, a request redirected to a route of
\* its own tree although another method has a route for exactly its path.
C25_Witness ==
    \E r \in DOMAIN calls :
        /\ Served(r)
        /\ HandleMethodNotAllowed
        /\ calls[r].req.method # MethodConnect
        /\ EnabledCorrection(calls[r].req)
        /\ RegisteredElsewhere(calls[r].req.method, calls[r].req.path)
        /\ calls[r].res.ran = <<"redirect">>
        /\ calls[r].res.w.location = <<"/", "A", "/">>

\* C25 as stated: the same for every request method, CONNECT included.
C25_Original == RedirectDecisions(Methods)

\* C26: whenever an addRoute call panics, for a refused argument or for a
\* pattern the tree refuses, the engine's method trees with the routes they
\* hold, maxParams and maxSections are the same after the call as before it.
C26_RegistrationAtomic ==
    [][raised'.message # "" =>
          /\ trees' = trees
          /\ maxParams' = maxParams
          /\ maxSections' = maxSections]_vars
====
